---- MODULE Spec2Model ----
(***************************************************************************)
(* Hotel room register (сем3_laba3.cpp): discount strategies, rooms, the   *)
(* Hotel collection, the console input helpers and the menu loop of main.  *)
(*                                                                         *)
(* A C++ double is modelled as a binary floating-point number of reduced   *)
(* size: Precision significand bits, round-to-nearest-even, gradual        *)
(* underflow, overflow to infinity, and NaN.  A finite value is held as an *)
(* integer count of the smallest step 2^-FracBits.                         *)
(***************************************************************************)
EXTENDS Integers, Sequences, FiniteSets

\* ---------------------------------------------------------------- bounds

\* significand bits of the modelled double
Precision == 5
\* the smallest positive modelled double is 2^-FracBits
FracBits == 7
\* finite modelled doubles are below 2^(MaxExp+1)
MaxExp == 19

\* -------------------------------------------------- double arithmetic

RECURSIVE Pow2(_)
Pow2(n) == IF n <= 0 THEN 1 ELSE 2 * Pow2(n - 1)

RECURSIVE BitLen(_)
BitLen(n) == IF n <= 0 THEN 0 ELSE 1 + BitLen(n \div 2)

Fin(n) == [k |-> "fin", v |-> n]
Inf == [k |-> "inf", v |-> 1]
NegInf == [k |-> "inf", v |-> -1]
NaN == [k |-> "nan", v |-> 0]

IsNaN(a) == a.k = "nan"

\* the first integer that is no finite double any more
Overflow == Pow2(FracBits + MaxExp + 1)

\* num/den steps (num >= 0, den > 0) rounded to the nearest double, ties to
\* the even significand
RoundRatio(num, den) ==
    LET q == num \div den
        u == IF q < Pow2(Precision) THEN 1 ELSE Pow2(BitLen(q) - Precision)
        lo == (q \div u) * u
        r2 == 2 * (num - lo * den)
        h == u * den
        up == r2 > h \/ (r2 = h /\ (lo \div u) % 2 = 1)
        n == IF up THEN lo + u ELSE lo
    IN  IF n >= Overflow THEN Inf ELSE Fin(n)

\* a finite double n = Mant(n) * 2^Expo(n), Mant(n) < 2^Precision
Expo(n) == IF BitLen(n) > Precision THEN BitLen(n) - Precision ELSE 0
Mant(n) == n \div Pow2(Expo(n))

\* the double r times 2^e, e >= 0
ScaleUp(r, e) ==
    IF r.k # "fin" \/ r.v = 0 THEN r
    ELSE IF BitLen(r.v) + e > FracBits + MaxExp + 1 THEN Inf
    ELSE Fin(r.v * Pow2(e))

FNeg(a) == IF a.k = "nan" THEN a ELSE [k |-> a.k, v |-> 0 - a.v]
FAbs(a) == IF a.k # "nan" /\ a.v < 0 THEN FNeg(a) ELSE a
Sign(a) == IF a.v < 0 THEN -1 ELSE 1
WithSign(s, r) == IF s < 0 THEN FNeg(r) ELSE r

\* a decimal literal num/den of the program text, converted to double
Lit(num, den) ==
    IF num < 0 THEN FNeg(RoundRatio((0 - num) * Pow2(FracBits), den))
    ELSE RoundRatio(num * Pow2(FracBits), den)

\* comparisons: every comparison with NaN is false
FLt(a, b) ==
    /\ ~IsNaN(a) /\ ~IsNaN(b)
    /\ \/ a.k = "fin" /\ b.k = "fin" /\ a.v < b.v
       \/ a.k = "fin" /\ b = Inf
       \/ a = NegInf /\ b # NegInf
FEq(a, b) == ~IsNaN(a) /\ ~IsNaN(b) /\ a = b
FLe(a, b) == FLt(a, b) \/ FEq(a, b)
FGt(a, b) == FLt(b, a)
FGe(a, b) == FLe(b, a)

\* a + b
FAdd(a, b) ==
    IF IsNaN(a) \/ IsNaN(b) THEN NaN
    ELSE IF a.k = "inf" /\ b.k = "inf" THEN (IF a = b THEN a ELSE NaN)
    ELSE IF a.k = "inf" THEN a
    ELSE IF b.k = "inf" THEN b
    ELSE LET s == a.v + b.v
         IN  IF s >= 0 THEN RoundRatio(s, 1) ELSE FNeg(RoundRatio(0 - s, 1))

\* a - b
FSub(a, b) == FAdd(a, FNeg(b))

\* a * b
FMul(a, b) ==
    IF IsNaN(a) \/ IsNaN(b) THEN NaN
    ELSE IF a.k = "inf" \/ b.k = "inf"
         THEN (IF a.v = 0 \/ b.v = 0 THEN NaN ELSE WithSign(Sign(a) * Sign(b), Inf))
    ELSE LET x == FAbs(a).v
             y == FAbs(b).v
             m == Mant(x) * Mant(y)
             e == Expo(x) + Expo(y) - FracBits
             r == IF e >= 0 THEN ScaleUp(RoundRatio(m, 1), e)
                  ELSE RoundRatio(m, Pow2(0 - e))
         IN  WithSign(Sign(a) * Sign(b), r)

\* a / b
FDiv(a, b) ==
    IF IsNaN(a) \/ IsNaN(b) THEN NaN
    ELSE IF a.k = "inf" THEN (IF b.k = "inf" THEN NaN ELSE WithSign(Sign(a) * Sign(b), Inf))
    ELSE IF b.k = "inf" THEN Fin(0)
    ELSE IF b.v = 0 THEN (IF a.v = 0 THEN NaN ELSE WithSign(Sign(a), Inf))
    ELSE LET x == FAbs(a).v
             y == FAbs(b).v
             e == Expo(x) - Expo(y) + FracBits
             r == IF e >= 2 * Precision
                  THEN ScaleUp(RoundRatio(Mant(x) * Pow2(2 * Precision), Mant(y)),
                               e - 2 * Precision)
                  ELSE IF e >= 0 THEN RoundRatio(Mant(x) * Pow2(e), Mant(y))
                  ELSE RoundRatio(Mant(x), Mant(y) * Pow2(0 - e))
         IN  WithSign(Sign(a) * Sign(b), r)

\* static_cast<double>(n) of a small count n
FromCount(n) == Lit(n, 1)

\* literals of the program text
Zero == Lit(0, 1)
One == Lit(1, 1)
Hundred == Lit(100, 1)
Million == Lit(1000000, 1)

\* ------------------------------------------------------------ strings

\* a std::string is the sequence of its characters
Str101 == <<"1", "0", "1">>
Str102 == <<"1", "0", "2">>
empty(s) == Len(s) = 0
size(s) == Len(s)

\* the longest label addRoom takes without a warning
MaxNumberSize == 50

\* ------------------------------------------------- discount strategies

NoDiscountStrategy == [kind |-> "NoDiscount", discountPercent |-> Zero]
NullStrategy == [kind |-> "null", discountPercent |-> Zero]

\* NoDiscountStrategy::computeCost
NoDiscountComputeCost(baseCost) == baseCost

\* variant: the upper check written with > in place of >=
PercentageDiscountStrategy_Allows100(percent) ==
    IF FLt(percent, Zero) THEN [thrown |-> "InvalidValue", obj |-> NullStrategy]
    ELSE IF FGt(percent, Hundred) THEN [thrown |-> "InvalidValue", obj |-> NullStrategy]
    ELSE [thrown |-> "none",
          obj |-> [kind |-> "Percentage", discountPercent |-> percent]]

\* PercentageDiscountStrategy::PercentageDiscountStrategy: the exception it
\* throws, if any, and the object it builds
PercentageDiscountStrategy(percent) ==
    IF FLt(percent, Zero) THEN [thrown |-> "InvalidValue", obj |-> NullStrategy]
    ELSE IF FGe(percent, Hundred) THEN [thrown |-> "InvalidValue", obj |-> NullStrategy]
    ELSE [thrown |-> "none",
          obj |-> [kind |-> "Percentage", discountPercent |-> percent]]

\* variant: the percentage added instead of taken off
PercentageComputeCost_Adds(discountPercent, baseCost) ==
    FMul(baseCost, FAdd(One, FDiv(discountPercent, Hundred)))

\* PercentageDiscountStrategy::computeCost
PercentageComputeCost(discountPercent, baseCost) ==
    FMul(baseCost, FSub(One, FDiv(discountPercent, Hundred)))

\* IDiscountStrategy::computeCost, dispatched on the object's class
computeCost(strategy, baseCost) ==
    IF strategy.kind = "NoDiscount" THEN NoDiscountComputeCost(baseCost)
    ELSE PercentageComputeCost(strategy.discountPercent, baseCost)

\* -------------------------------------------------------------- rooms

NullRoom == [number |-> <<>>, baseCost |-> Zero, discountStrategy |-> NullStrategy]

\* RoomBase::RoomBase
RoomBase(number_, baseCost_, strategy_) ==
    IF empty(number_) THEN [thrown |-> "InvalidValue", obj |-> NullRoom]
    ELSE IF FLe(baseCost_, Zero) THEN [thrown |-> "InvalidValue", obj |-> NullRoom]
    ELSE IF strategy_.kind = "null" THEN [thrown |-> "InvalidValue", obj |-> NullRoom]
    ELSE [thrown |-> "none",
          obj |-> [number |-> number_, baseCost |-> baseCost_,
                   discountStrategy |-> strategy_]]

getNumber(r) == r.number
getBaseCost(r) == r.baseCost
\* variant: the strategy is not asked
getFinalCost_BaseCost(r) == r.baseCost
getFinalCost(r) == computeCost(r.discountStrategy, r.baseCost)

\* -------------------------------------------------------------- Hotel

\* variant: the loop stops one room early
existsRoomNumber_SkipsLast(rs, num) ==
    \E i \in 1..(Len(rs) - 1) : getNumber(rs[i]) = num

\* Hotel::existsRoomNumber
existsRoomNumber(rs, num) == \E i \in 1..Len(rs) : getNumber(rs[i]) = num

\* variant: the number is not looked up
addRoom_NoDuplicateCheck(rs, number, baseCost, discountPercent) ==
    LET strat == IF FEq(discountPercent, Zero)
                 THEN [thrown |-> "none", obj |-> NoDiscountStrategy]
                 ELSE PercentageDiscountStrategy(discountPercent)
        room == RoomBase(number, baseCost, strat.obj)
        out(t, r) == [thrown |-> t, rooms |-> r, warned |-> size(number) > MaxNumberSize]
    IN  IF strat.thrown # "none" THEN out(strat.thrown, rs)
        ELSE IF room.thrown # "none" THEN out(room.thrown, rs)
        ELSE out("none", Append(rs, room.obj))

\* variant: the new room is put first
addRoom_PushFront(rs, number, baseCost, discountPercent) ==
    LET strat == IF FEq(discountPercent, Zero)
                 THEN [thrown |-> "none", obj |-> NoDiscountStrategy]
                 ELSE PercentageDiscountStrategy(discountPercent)
        room == RoomBase(number, baseCost, strat.obj)
        out(t, r) == [thrown |-> t, rooms |-> r, warned |-> size(number) > MaxNumberSize]
    IN  IF \E i \in 1..Len(rs) : rs[i].number = number THEN out("DuplicateRoom", rs)
        ELSE IF strat.thrown # "none" THEN out(strat.thrown, rs)
        ELSE IF room.thrown # "none" THEN out(room.thrown, rs)
        ELSE out("none", <<room.obj>> \o rs)

\* variant: the values are validated before the number is looked up
addRoom_ValidatesFirst(rs, number, baseCost, discountPercent) ==
    LET strat == IF FEq(discountPercent, Zero)
                 THEN [thrown |-> "none", obj |-> NoDiscountStrategy]
                 ELSE PercentageDiscountStrategy(discountPercent)
        room == RoomBase(number, baseCost, strat.obj)
        out(t, r) == [thrown |-> t, rooms |-> r, warned |-> size(number) > MaxNumberSize]
    IN  IF strat.thrown # "none" THEN out(strat.thrown, rs)
        ELSE IF room.thrown # "none" THEN out(room.thrown, rs)
        ELSE IF \E i \in 1..Len(rs) : rs[i].number = number THEN out("DuplicateRoom", rs)
        ELSE out("none", Append(rs, room.obj))

\* Hotel::addRoom: the exception thrown, the collection afterwards, and
\* whether the warning was written to cerr
addRoom(rs, number, baseCost, discountPercent) ==
    LET warned == size(number) > MaxNumberSize
        strat == IF FEq(discountPercent, Zero)
                 THEN [thrown |-> "none", obj |-> NoDiscountStrategy]
                 ELSE PercentageDiscountStrategy(discountPercent)
        room == RoomBase(number, baseCost, strat.obj)
    IN  IF existsRoomNumber(rs, number)
        THEN [thrown |-> "DuplicateRoom", rooms |-> rs, warned |-> warned]
        ELSE IF strat.thrown # "none"
        THEN [thrown |-> strat.thrown, rooms |-> rs, warned |-> warned]
        ELSE IF room.thrown # "none"
        THEN [thrown |-> room.thrown, rooms |-> rs, warned |-> warned]
        ELSE [thrown |-> "none", rooms |-> Append(rs, room.obj), warned |-> warned]

\* the loop of Hotel::calculateAverageCost: sum after the first n rooms
RECURSIVE SumFinalCost(_, _)
SumFinalCost(rs, n) ==
    IF n = 0 THEN Zero ELSE FAdd(SumFinalCost(rs, n - 1), getFinalCost(rs[n]))

\* variant: the check for an empty list is left out
calculateAverageCost_NoEmptyCheck(rs) ==
    [thrown |-> "none",
     value |-> FDiv(SumFinalCost(rs, Len(rs)), FromCount(Len(rs)))]

\* Hotel::calculateAverageCost
calculateAverageCost(rs) ==
    IF Len(rs) = 0 THEN [thrown |-> "EmptyRoomList", value |-> Zero]
    ELSE [thrown |-> "none",
          value |-> FDiv(SumFinalCost(rs, Len(rs)), FromCount(Len(rs)))]

\* Hotel::printAll: the rows written, in the order written (no row when the
\* list is empty); the text layout of a row is not modelled
printAll(rs) ==
    [i \in 1..Len(rs) |-> <<getNumber(rs[i]), getBaseCost(rs[i]), getFinalCost(rs[i])>>]

\* ------------------------------------------------------ console input

WhiteSpace == {" ", "\t", "\r", "\n"}
Digits == <<"0", "1", "2", "3", "4", "5", "6", "7", "8", "9">>
isdigit(c) == \E i \in 1..10 : Digits[i] = c
DigitValue(c) == (CHOOSE i \in 1..10 : Digits[i] = c) - 1

\* std::string::npos
npos == 0 - 1

\* s.find_first_not_of(" \t\r\n") and s.find_last_not_of(" \t\r\n"), as
\* 0-based positions
find_first_not_of(s) ==
    IF \A i \in 1..Len(s) : s[i] \in WhiteSpace THEN npos
    ELSE (CHOOSE i \in 1..Len(s) :
            s[i] \notin WhiteSpace /\ \A j \in 1..(i - 1) : s[j] \in WhiteSpace) - 1
find_last_not_of(s) ==
    IF \A i \in 1..Len(s) : s[i] \in WhiteSpace THEN npos
    ELSE (CHOOSE i \in 1..Len(s) :
            s[i] \notin WhiteSpace /\ \A j \in (i + 1)..Len(s) : s[j] \in WhiteSpace) - 1

\* s.substr(pos, count), pos 0-based
substr(s, pos, count) == SubSeq(s, pos + 1, pos + count)

\* the largest int
INT_MAX == 2147483647

\* std::stoi of a string of decimal digits
RECURSIVE stoiFrom(_, _, _)
stoiFrom(s, i, acc) ==
    IF i > Len(s) THEN [thrown |-> "none", val |-> acc]
    ELSE IF acc > (INT_MAX - DigitValue(s[i])) \div 10
         THEN [thrown |-> "out_of_range", val |-> 0]
         ELSE stoiFrom(s, i + 1, acc * 10 + DigitValue(s[i]))
stoi(s) == stoiFrom(s, 1, 0)

\* one pass of the loop of inputNonEmptyString on the line read: the string
\* returned, or a retry
inputNonEmptyString(line) ==
    LET start == find_first_not_of(line)
        end == find_last_not_of(line)
        s == substr(line, start, end - start + 1)
    IN  IF start = npos \/ end = npos THEN [retry |-> TRUE, val |-> <<>>]
        ELSE IF ~empty(s) THEN [retry |-> FALSE, val |-> s]
        ELSE [retry |-> TRUE, val |-> <<>>]

\* what cin >> x gives: no number (the extraction fails), or the number read
NoNumber == [ok |-> FALSE, x |-> Zero]
Number(x) == [ok |-> TRUE, x |-> x]

\* one pass of the loop of inputPositiveDouble
inputPositiveDouble(in) ==
    IF ~in.ok THEN [retry |-> TRUE, val |-> Zero]
    ELSE IF FLe(in.x, Zero) THEN [retry |-> TRUE, val |-> Zero]
    ELSE IF FGt(in.x, Million) THEN [retry |-> TRUE, val |-> Zero]
    ELSE [retry |-> FALSE, val |-> in.x]

\* one pass of the loop of inputNonNegativeDouble
inputNonNegativeDouble(in) ==
    IF ~in.ok THEN [retry |-> TRUE, val |-> Zero]
    ELSE IF FLt(in.x, Zero) THEN [retry |-> TRUE, val |-> Zero]
    ELSE IF FGe(in.x, Hundred) THEN [retry |-> TRUE, val |-> Zero]
    ELSE [retry |-> FALSE, val |-> in.x]

\* a line read by getline, or the end of the input
EndOfInput == [ok |-> FALSE, line |-> <<>>]
Line(l) == [ok |-> TRUE, line |-> l]

\* one pass of the loop of inputMenuChoice: a retry, the choice returned, or
\* the exception that leaves the function
inputMenuChoice(in, low, high) ==
    LET line == in.line
        start == find_first_not_of(line)
        end == find_last_not_of(line)
        s == substr(line, start, end - start + 1)
        allDigits == ~empty(s) /\ \A i \in 1..Len(s) : isdigit(s[i])
        val == stoi(s)
        again == [retry |-> TRUE, thrown |-> "none", val |-> 0]
    IN  IF ~in.ok THEN again
        ELSE IF start = npos \/ end = npos THEN again
        ELSE IF ~allDigits THEN again
        ELSE IF val.thrown # "none" THEN [retry |-> FALSE, thrown |-> val.thrown, val |-> 0]
        ELSE IF val.val < low \/ val.val > high THEN again
        ELSE [retry |-> FALSE, thrown |-> "none", val |-> val.val]

\* the menu range main passes to inputMenuChoice
MenuLow == 0
MenuHigh == 3

\* --------------------------------------------------------------- state

VARIABLES
    rooms,      \* Hotel::rooms
    added,      \* history: the arguments of every addRoom call that returned
    last,       \* the last call on the Hotel or on a strategy, and how it ended
    pc,         \* where main stands
    number,     \* main's local number
    baseCost,   \* main's local baseCost
    console     \* what main wrote last

vars == <<rooms, added, last, pc, number, baseCost, console>>

NoCall ==
    [op |-> "none", number |-> <<>>, baseCost |-> Zero, discountPercent |-> Zero,
     thrown |-> "none", value |-> Zero, warned |-> FALSE]

\* the state after Hotel hotel;
Fresh ==
    /\ rooms = <<>>
    /\ added = <<>>
    /\ last = NoCall
    /\ number = <<>>
    /\ baseCost = Zero
    /\ console = "none"

\* ------------------------------------------- the Hotel, called directly

Numbers == {<<>>, Str101, Str102}
BaseCosts == {Lit(0 - 5, 1), Zero, Lit(100, 1), Lit(200, 1), NaN}
DiscountPercents == {Lit(0 - 1, 1), Zero, Lit(50, 1), Hundred, NaN}

\* hotel.addRoom(n, b, d), with the exception it may throw
DoAddRoom(n, b, d) ==
    LET r == addRoom(rooms, n, b, d)
    IN  /\ rooms' = r.rooms
        /\ added' = IF r.thrown = "none"
                    THEN Append(added, [number |-> n, baseCost |-> b, discountPercent |-> d])
                    ELSE added
        /\ last' = [op |-> "addRoom", number |-> n, baseCost |-> b,
                    discountPercent |-> d, thrown |-> r.thrown, value |-> Zero,
                    warned |-> r.warned]

\* hotel.calculateAverageCost(), with the exception it may throw
DoCalculateAverageCost ==
    LET r == calculateAverageCost(rooms)
    IN  /\ last' = [NoCall EXCEPT !.op = "calculateAverageCost",
                                  !.thrown = r.thrown, !.value = r.value]
        /\ UNCHANGED <<rooms, added>>

\* hotel.printAll()
DoPrintAll ==
    /\ last' = [NoCall EXCEPT !.op = "printAll", !.value = FromCount(Len(printAll(rooms)))]
    /\ UNCHANGED <<rooms, added>>

AddRoom ==
    /\ pc = "api"
    /\ \E n \in Numbers, b \in BaseCosts, d \in DiscountPercents : DoAddRoom(n, b, d)
    /\ UNCHANGED <<pc, number, baseCost, console>>

CalculateAverageCost ==
    /\ pc = "api"
    /\ DoCalculateAverageCost
    /\ UNCHANGED <<pc, number, baseCost, console>>

PrintAll ==
    /\ pc = "api"
    /\ DoPrintAll
    /\ UNCHANGED <<pc, number, baseCost, console>>

Init == Fresh /\ pc = "api"
Next == AddRoom \/ CalculateAverageCost \/ PrintAll
Spec == Init /\ [][Next]_vars

\* ------------------------------------- a discount strategy, used directly

CostInputs ==
    {RoundRatio(n, 1) : n \in 1..(4 * Pow2(Precision))}
        \cup {Lit(50, 1), Lit(100, 1), Lit(200, 1), Million, Inf}
RateInputs ==
    {Zero, Fin(1), Lit(1, 4), Lit(1, 2), Lit(1, 1), Lit(5, 1), Lit(20, 1),
     Lit(50, 1), Lit(75, 1), Lit(96, 1), Hundred, Lit(0 - 1, 1)}

\* PercentageDiscountStrategy(rate).computeCost(b), for the b and the rate
\* drawn at the start
ComputeCost ==
    /\ pc = "strategy"
    /\ last.op = "input"
    /\ LET s == PercentageDiscountStrategy(last.discountPercent)
       IN  last' = [last EXCEPT !.op = "computeCost", !.thrown = s.thrown,
                                !.value = IF s.thrown = "none"
                                          THEN computeCost(s.obj, last.baseCost)
                                          ELSE Zero]
    /\ UNCHANGED <<rooms, added, pc, number, baseCost, console>>

InitCost ==
    /\ rooms = <<>>
    /\ added = <<>>
    /\ \E b \in CostInputs, rate \in RateInputs :
         last = [NoCall EXCEPT !.op = "input", !.baseCost = b, !.discountPercent = rate]
    /\ number = <<>>
    /\ baseCost = Zero
    /\ console = "none"
    /\ pc = "strategy"
NextCost == ComputeCost
SpecCost == InitCost /\ [][NextCost]_vars

\* ------------------------------------------------------------ main

Nines(n) == [i \in 1..n |-> "9"]
MenuLines ==
    {EndOfInput, Line(<<>>), Line(<<" ">>), Line(<<"0">>), Line(<<"1">>),
     Line(<<" ", "2", "\r">>), Line(<<"3">>), Line(<<"7">>), Line(<<"1", "x">>),
     Line(<<"0", "0", "1">>), Line(Nines(11))}
NumberLines ==
    {<<>>, <<" ", "\t">>, Str101, <<" ">> \o Nines(MaxNumberSize + 1) \o <<"\r">>}
CostNumbers ==
    {NoNumber, Number(Lit(0 - 5, 1)), Number(Zero), Number(Lit(100, 1)),
     Number(Million), Number(Inf)}
DiscountNumbers ==
    {NoNumber, Number(Lit(0 - 1, 1)), Number(Zero), Number(Lit(50, 1)), Number(Hundred)}

\* int choice = inputMenuChoice("...", 0, 3): a pass that asks again
MenuRetry ==
    /\ pc = "menu"
    /\ \E in \in MenuLines : inputMenuChoice(in, MenuLow, MenuHigh).retry
    /\ console' = "menu: retry"
    /\ UNCHANGED <<rooms, added, last, pc, number, baseCost>>

\* inputMenuChoice throws: the call stands outside main's try block, the
\* exception leaves main and the process is terminated
MenuThrows ==
    /\ pc = "menu"
    /\ \E in \in MenuLines : inputMenuChoice(in, MenuLow, MenuHigh).thrown # "none"
    /\ pc' = "terminated"
    /\ console' = "terminate"
    /\ UNCHANGED <<rooms, added, last, number, baseCost>>

Chosen(c) ==
    /\ pc = "menu"
    /\ \E in \in MenuLines :
         LET r == inputMenuChoice(in, MenuLow, MenuHigh)
         IN  ~r.retry /\ r.thrown = "none" /\ r.val = c

\* choice 0: break, return 0
MenuExit ==
    /\ Chosen(0)
    /\ pc' = "exit"
    /\ console' = "exit"
    /\ UNCHANGED <<rooms, added, last, number, baseCost>>

\* choice 1: main goes on to read the room's number
MenuAdd ==
    /\ Chosen(1)
    /\ pc' = "number"
    /\ console' = "ask number"
    /\ UNCHANGED <<rooms, added, last, number, baseCost>>

\* choice 2: hotel.printAll()
MenuPrint ==
    /\ Chosen(2)
    /\ DoPrintAll
    /\ console' = IF Len(rooms) = 0 THEN "list: empty" ELSE "list"
    /\ UNCHANGED <<pc, number, baseCost>>

\* choice 3: hotel.calculateAverageCost(), the HotelException caught
MenuAverage ==
    /\ Chosen(3)
    /\ DoCalculateAverageCost
    /\ console' = IF last'.thrown = "none" THEN "average" ELSE "error: HotelException"
    /\ UNCHANGED <<pc, number, baseCost>>

\* inputNonEmptyString
ReadNumber ==
    /\ pc = "number"
    /\ \E line \in NumberLines :
         LET r == inputNonEmptyString(line)
         IN  IF r.retry
             THEN /\ console' = "number: retry"
                  /\ UNCHANGED <<pc, number>>
             ELSE /\ number' = r.val
                  /\ pc' = "baseCost"
                  /\ console' = "ask baseCost"
    /\ UNCHANGED <<rooms, added, last, baseCost>>

\* inputPositiveDouble
ReadBaseCost ==
    /\ pc = "baseCost"
    /\ \E in \in CostNumbers :
         LET r == inputPositiveDouble(in)
         IN  IF r.retry
             THEN /\ console' = "baseCost: retry"
                  /\ UNCHANGED <<pc, baseCost>>
             ELSE /\ baseCost' = r.val
                  /\ pc' = "discount"
                  /\ console' = "ask discount"
    /\ UNCHANGED <<rooms, added, last, number>>

\* inputNonNegativeDouble, then hotel.addRoom(number, baseCost, discount) and
\* main's catch clauses
ReadDiscountAndAdd ==
    /\ pc = "discount"
    /\ \E in \in DiscountNumbers :
         LET r == inputNonNegativeDouble(in)
         IN  IF r.retry
             THEN /\ console' = "discount: retry"
                  /\ UNCHANGED <<rooms, added, last, pc, number, baseCost>>
             ELSE /\ DoAddRoom(number, baseCost, r.val)
                  /\ console' = IF last'.thrown = "none" THEN "added"
                                ELSE "error: HotelException"
                  /\ pc' = "menu"
                  /\ number' = <<>>
                  /\ baseCost' = Zero

InitMain == Fresh /\ pc = "menu"
NextMain ==
    \/ MenuRetry
    \/ MenuThrows
    \/ MenuExit
    \/ MenuAdd
    \/ MenuPrint
    \/ MenuAverage
    \/ ReadNumber
    \/ ReadBaseCost
    \/ ReadDiscountAndAdd
SpecMain == InitMain /\ [][NextMain]_vars

\* ------------------------------------------------------------ claims

Invalid(b, d) == FLe(b, Zero) \/ FLt(d, Zero) \/ FGe(d, Hundred)
IsPrefix(s, t) == Len(s) <= Len(t) /\ SubSeq(t, 1, Len(s)) = s

\* C1: no two rooms of the collection have equal numbers
C1_UniqueNumbers ==
    \A i, j \in 1..Len(rooms) : i # j => rooms[i].number # rooms[j].number
C1_Witness ==
    /\ Len(rooms) = 2
    /\ last.op = "addRoom"
    /\ last.thrown = "DuplicateRoom"

\* C2: addRoom with a number already present throws DuplicateRoom and leaves
\* the collection as it was: the same rooms in the same order, each with the
\* same number, base cost and final cost
C2_DuplicateRejected ==
    [][(last'.op = "addRoom" /\ existsRoomNumber(rooms, last'.number))
          => /\ last'.thrown = "DuplicateRoom"
             /\ Len(rooms') = Len(rooms)
             /\ rooms' = rooms
             /\ printAll(rooms') = printAll(rooms)]_vars
C2_Witness ==
    /\ last.op = "addRoom"
    /\ last.thrown = "DuplicateRoom"
    /\ Len(rooms) = 1
    /\ rooms[1].number = Str101
    /\ rooms[1].baseCost = Lit(100, 1)
    /\ last.baseCost = Lit(200, 1)

\* C3: the collection only grows at its end: every step keeps the old
\* collection as a prefix; an addRoom that returns adds exactly one room, last,
\* with the number and the base cost given; every other call, and every
\* addRoom that throws, leaves the collection as it was
C3_AppendOnly ==
    [][/\ IsPrefix(rooms, rooms')
       /\ (last'.op = "addRoom" /\ last'.thrown = "none")
             => /\ Len(rooms') = Len(rooms) + 1
                /\ rooms'[Len(rooms')].number = last'.number
                /\ rooms'[Len(rooms')].baseCost = last'.baseCost
       /\ ~(last'.op = "addRoom" /\ last'.thrown = "none") => rooms' = rooms]_vars
C3_Witness ==
    /\ Len(rooms) = 2
    /\ rooms[1].number = Str102
    /\ rooms[2].number = Str101
    /\ last.op = "addRoom"
    /\ last.thrown = "none"

\* C4: for a number not yet present, addRoom throws InvalidValue and leaves
\* the collection as it was when the number is empty, or baseCost <= 0, or
\* discountPercent < 0, or discountPercent >= 100; and it returns when the
\* number is not empty, baseCost > 0 and 0 <= discountPercent < 100
C4_Validation ==
    [][(last'.op = "addRoom" /\ ~existsRoomNumber(rooms, last'.number))
          => /\ (empty(last'.number) \/ Invalid(last'.baseCost, last'.discountPercent))
                  => (last'.thrown = "InvalidValue" /\ rooms' = rooms)
             /\ (/\ ~empty(last'.number)
                 /\ FGt(last'.baseCost, Zero)
                 /\ FLe(Zero, last'.discountPercent)
                 /\ FLt(last'.discountPercent, Hundred))
                  => (last'.thrown = "none" /\ Len(rooms') = Len(rooms) + 1)]_vars
C4_Witness ==
    /\ last.op = "addRoom"
    /\ last.thrown = "InvalidValue"
    /\ ~empty(last.number)
    /\ FGt(last.baseCost, Zero)
    /\ FGe(last.discountPercent, Hundred)
    /\ Len(rooms) = 1

\* C5: on a Hotel that is not empty calculateAverageCost returns the sum of
\* the final costs divided by the number of rooms, a room's final cost being
\* its base cost when it was added with discountPercent 0 and
\* baseCost * (1 - discountPercent/100) otherwise; rooms (100, 0%) and
\* (200, 50%) give 100
ExpectedFinalCost(a) ==
    IF FEq(a.discountPercent, Zero) THEN a.baseCost
    ELSE FMul(a.baseCost, FSub(One, FDiv(a.discountPercent, Hundred)))
RECURSIVE ExpectedSum(_, _)
ExpectedSum(as, n) ==
    IF n = 0 THEN Zero ELSE FAdd(ExpectedSum(as, n - 1), ExpectedFinalCost(as[n]))
Example5 ==
    /\ Len(added) = 2
    /\ added[1].baseCost = Lit(100, 1) /\ added[1].discountPercent = Zero
    /\ added[2].baseCost = Lit(200, 1) /\ added[2].discountPercent = Lit(50, 1)
C5_Average ==
    (last.op = "calculateAverageCost" /\ Len(rooms) > 0)
        => /\ last.thrown = "none"
           /\ Len(added) = Len(rooms)
           /\ last.value = FDiv(ExpectedSum(added, Len(added)), FromCount(Len(added)))
           /\ Example5 => last.value = Hundred
C5_Witness ==
    /\ last.op = "calculateAverageCost"
    /\ Example5
    /\ last.value = Hundred

\* C6: calculateAverageCost throws EmptyRoomList exactly when the Hotel holds
\* no room, and never once an addRoom has returned
C6_EmptyCollection ==
    last.op = "calculateAverageCost"
        => /\ (last.thrown = "EmptyRoomList") = (Len(rooms) = 0)
           /\ Len(added) > 0 => last.thrown = "none"
           /\ last.thrown \in {"none", "EmptyRoomList"}
C6_Witness ==
    /\ last.op = "calculateAverageCost"
    /\ last.thrown = "EmptyRoomList"
    /\ Len(rooms) = 0

\* C7, as stated: for baseCost > 0 and 0 <= rate < 100 the result of
\* PercentageDiscount(rate).computeFinalCost(baseCost) is
\* baseCost * (1 - rate/100), strictly less than baseCost when rate > 0 and
\* equal to baseCost when rate = 0
Computed ==
    /\ last.op = "computeCost"
    /\ FGt(last.baseCost, Zero)
    /\ FLe(Zero, last.discountPercent)
    /\ FLt(last.discountPercent, Hundred)
Factor == FSub(One, FDiv(last.discountPercent, Hundred))
C7_StrictlyLess ==
    Computed
        => /\ last.thrown = "none"
           /\ last.value = FMul(last.baseCost, Factor)
           /\ FGt(last.discountPercent, Zero) => FLt(last.value, last.baseCost)
           /\ FEq(last.discountPercent, Zero) => FEq(last.value, last.baseCost)

\* the smallest normal double, in steps
MinNormal == Pow2(Precision - 1)

\* C7, amended: the result is baseCost * (1 - rate/100) in double arithmetic;
\* it is never greater than baseCost and never negative, it equals baseCost
\* when rate = 0, and it is strictly less than baseCost when the factor
\* 1 - rate/100 computed in double is below 1 and baseCost is finite and above
\* the smallest normal double
C7_NeverGreater ==
    Computed
        => /\ last.thrown = "none"
           /\ last.value = FMul(last.baseCost, Factor)
           /\ FLe(last.value, last.baseCost)
           /\ FGe(last.value, Zero)
           /\ FEq(last.discountPercent, Zero) => FEq(last.value, last.baseCost)
           /\ (FLt(Factor, One) /\ last.baseCost.k = "fin" /\ last.baseCost.v > MinNormal)
                 => FLt(last.value, last.baseCost)
C7_Witness ==
    /\ Computed
    /\ FGt(last.discountPercent, Zero)
    /\ FEq(last.value, last.baseCost)

\* C8: no failure is fatal while the menu loop runs: every exception is
\* caught and reported and the loop goes back to the menu; the loop ends only
\* when 0 is chosen
C8_NoFatalFailure == pc # "terminated"

\* C9: every room of the Hotel has a number that is not empty, a base cost
\* > 0 and a discount rate in [0, 100), so 0 < finalCost <= baseCost, and the
\* average final cost of a Hotel that is not empty is > 0
C9_StoredRoomsValid ==
    /\ \A i \in 1..Len(rooms) :
         /\ ~empty(rooms[i].number)
         /\ FGt(rooms[i].baseCost, Zero)
         /\ FLe(Zero, added[i].discountPercent)
         /\ FLt(added[i].discountPercent, Hundred)
         /\ FLt(Zero, getFinalCost(rooms[i]))
         /\ FLe(getFinalCost(rooms[i]), rooms[i].baseCost)
    /\ Len(rooms) > 0 => FGt(calculateAverageCost(rooms).value, Zero)

\* C10: the number is looked up before any value is validated: addRoom with a
\* number already present and a base cost <= 0 or a discount percent < 0 or
\* >= 100 throws DuplicateRoom, never InvalidValue, and leaves the collection
\* as it was
C10_DuplicateBeforeValidation ==
    [][(/\ last'.op = "addRoom"
        /\ existsRoomNumber(rooms, last'.number)
        /\ Invalid(last'.baseCost, last'.discountPercent))
          => (last'.thrown = "DuplicateRoom" /\ rooms' = rooms)]_vars
C10_Witness ==
    /\ last.op = "addRoom"
    /\ last.thrown = "DuplicateRoom"
    /\ FLe(last.baseCost, Zero)
    /\ FGe(last.discountPercent, Hundred)
    /\ Len(rooms) = 1

====
